---- MODULE Spec2Model ----
(***************************************************************************)
(* Model of the pipe-network background agent (src/background.js) and of   *)
(* the exported helpers of src/utils.js.                                   *)
(*                                                                         *)
(* JavaScript runs one task at a time: the code between two awaits is one  *)
(* atomic step.  Every action below is one such segment, started by the    *)
(* event that resumes it (a fetch settling, a timer firing, a storage      *)
(* callback, an alarm).  `await response.json()` only touches local state, *)
(* so it is folded into the step of the fetch that produced the response.  *)
(***************************************************************************)
EXTENDS Integers, Sequences, FiniteSets, TLC

VARIABLES
    baseUrl,     \* background.js:2   the cached base URL
    token,       \* chrome.storage.local["token"]
    proc,        \* the async activations of background.js, one per entry point
    hbTimer,     \* background.js:204 the heartbeat setInterval: registered?, captured token
    period,      \* observer: what happened at the last 6-hour period
    lastWrite,   \* observer: outcome of the resolution that last wrote baseUrl
    call,        \* utils.js:14 one activation of the exported fetchWithRetry
    callLog,     \* observer: the events of that activation, in order
    ufb,         \* utils.js:1 one activation of the exported fetchBaseUrl
    notificationLinks,  \* background.js:154 notification id -> link
    pendingCreates,     \* chrome.notifications.create calls whose callback has not run
    lastClick           \* observer: the last button click and the tabs it opened

vars == <<baseUrl, token, proc, hbTimer, period, lastWrite, call, callLog, ufb,
          notificationLinks, pendingCreates, lastClick>>
notifVars == <<notificationLinks, pendingCreates, lastClick>>
bgVars == <<baseUrl, token, proc, hbTimer, period, lastWrite>>
utilVars == <<call, callLog, ufb>>

----------------------------------------------------------------------------
(* Bounds *)

MaxRetries == 3     \* fetchWithRetry is exercised with retries in 0..MaxRetries
MaxPending == 1     \* notification creations whose callback has not run yet
TickMs == 2500      \* the clock of a latency probe advances by at most TickMs

(* Program constants *)

DefaultRetries == 3
DefaultDelay == 1000
ProbeTimeout == 5000
Fallback == "https://api.pipecdn.app"
ConfigUrl == "https://pipe-network-backend.pipecanary.workers.dev/api/getBaseUrl"

(* JavaScript values *)

Null == "null"
Undefined == "undefined"
Truthy(v) == v \notin {Null, Undefined, ""}

----------------------------------------------------------------------------
(* Response bodies, as the text the server sent, and what response.json()  *)
(* and the property reads make of them.                                    *)

ServerUrls == {"https://x"}
ConfigBodies == {"not json", "null", "{}", "{baseUrl:''}", "{baseUrl:'https://x'}"}
NodeBodies == {"not json", "[]", "[n1]", "[n1,n2]"}
PlainBodies == {"r1", "r2"}
RewardBodies == {"not json", "null", "{}", "{link:'https://y'}", "{points:5}"}

\* response.json() rejects on text that is not JSON
JsonParses(body) == body # "not json"

\* the parsed value is null (reading a property of it throws a TypeError)
JsonIsNull(body) == body = "null"

\* data.baseUrl of the parsed object
JsonBaseUrl(body) ==
    CASE body = "{baseUrl:'https://x'}" -> "https://x"
      [] body = "{baseUrl:''}" -> ""
      [] OTHER -> Undefined

\* Object.keys(data).length of the parsed object
JsonKeys(body) == IF body \in {"{link:'https://y'}", "{points:5}"} THEN 1 ELSE 0

\* data.link of the parsed object
JsonLink(body) == IF body = "{link:'https://y'}" THEN "https://y" ELSE Undefined

\* the parsed node list
JsonNodes(body) ==
    CASE body = "[n1]" -> <<"n1">>
      [] body = "[n1,n2]" -> <<"n1", "n2">>
      [] OTHER -> <<>>

(* What one fetch() can settle with: a rejection (network error) or a      *)
(* response with its ok flag and body.                                     *)
NetErr == [err |-> TRUE, ok |-> FALSE, body |-> ""]
NotOk == [err |-> FALSE, ok |-> FALSE, body |-> ""]
Ok(b) == [err |-> FALSE, ok |-> TRUE, body |-> b]
Outcomes(bodies) == {NetErr, NotOk} \cup {Ok(b) : b \in bodies}

----------------------------------------------------------------------------
(* fetchWithRetry: background.js:30-44, utils.js:14-28 (the same text).    *)
(* A frame is one activation: its arguments, its loop variable and where   *)
(* it is suspended.                                                        *)
(*   pc = "fetch"    awaiting fetch(url, options)                          *)
(*   pc = "sleep"    awaiting the setTimeout of `timer` ms                 *)
(*   pc = "returned" returned `result`                                     *)
(*   pc = "threw"    threw Error('All retry attempts failed')              *)

NoFrame == [pc |-> "none", url |-> "", retries |-> 0, delay |-> 0,
            attempt |-> 0, timer |-> 0, result |-> NetErr]

\* the loop condition `attempt < retries`
FwrLoopCondOffByOne(f) == f.attempt <= f.retries
FwrLoopCond(f) == f.attempt < f.retries

\* the condition `attempt < retries - 1` guarding the delay
FwrNeedDelayOffByOne(f) == f.attempt < f.retries - 2
FwrNeedDelay(f) == f.attempt < f.retries - 1

\* the duration handed to setTimeout
FwrDelayBackoff(f) == f.delay * (f.attempt + 1)
FwrDelay(f) == f.delay

\* top of the loop: test the condition, then either issue the fetch or
\* fall out of the loop to the throw
FwrEnter(f) ==
    IF FwrLoopCond(f)
    THEN [f EXCEPT !.pc = "fetch"]
    ELSE [f EXCEPT !.pc = "threw"]

\* the call itself: attempt = 0 and the first pass through the loop
FwrCallTestAtBottom(url, retries, delay) ==
    [pc |-> "fetch", url |-> url, retries |-> retries, delay |-> delay,
     attempt |-> 0, timer |-> 0, result |-> NetErr]
FwrCall(url, retries, delay) ==
    FwrEnter([pc |-> "none", url |-> url, retries |-> retries, delay |-> delay,
              attempt |-> 0, timer |-> 0, result |-> NetErr])

\* the awaited fetch settles with outcome o
FwrSettle(f, o) ==
    IF ~o.err /\ o.ok
    THEN [f EXCEPT !.pc = "returned", !.result = o]
    ELSE IF FwrNeedDelay(f)
         THEN [f EXCEPT !.pc = "sleep", !.timer = FwrDelay(f)]
         ELSE FwrEnter([f EXCEPT !.attempt = f.attempt + 1])

\* the setTimeout fires: attempt++ and the next pass through the loop
FwrTimer(f) ==
    FwrEnter([f EXCEPT !.attempt = f.attempt + 1, !.timer = 0])

----------------------------------------------------------------------------
(* fetchBaseUrl *)

\* background.js:5-19, given the finished fetchWithRetry frame
FetchBaseUrlNoCheck(f) ==
    IF f.pc = "threw" THEN Fallback
    ELSE IF ~JsonParses(f.result.body) THEN Fallback
    ELSE IF JsonIsNull(f.result.body) THEN Fallback
    ELSE JsonBaseUrl(f.result.body)
FetchBaseUrl(f) ==
    IF f.pc = "threw" THEN Fallback
    ELSE IF ~JsonParses(f.result.body) THEN Fallback
    ELSE IF ~JsonIsNull(f.result.body) /\ Truthy(JsonBaseUrl(f.result.body))
         THEN JsonBaseUrl(f.result.body)
         ELSE Fallback

\* utils.js:1-11, given the outcome of its single fetch
UtilsFetchBaseUrl(o) ==
    IF o.err THEN Fallback
    ELSE IF ~o.ok THEN Fallback
    ELSE IF ~JsonParses(o.body) THEN Fallback
    ELSE IF JsonIsNull(o.body) THEN Fallback
    ELSE JsonBaseUrl(o.body)

----------------------------------------------------------------------------
(* The exports of utils.js, called by a client of the module.              *)

Delays == {0, DefaultDelay}

Event(ev, d, body) == [ev |-> ev, d |-> d, body |-> body]

\* what an observer of the network sees of an outcome
OutcomeEvent(o) ==
    IF o.err THEN Event("neterr", 0, "")
    ELSE IF ~o.ok THEN Event("notok", 0, "")
    ELSE Event("ok", 0, o.body)

\* the events of one step of an activation: the fetch it issues, if any
IssueEvents(f) == IF f.pc = "fetch" THEN <<Event("attempt", 0, "")>> ELSE <<>>

UtilsInit ==
    /\ call = NoFrame
    /\ callLog = <<>>
    /\ ufb = [pc |-> "idle", outcome |-> NetErr, result |-> Null]

\* utils.js:14 a client calls fetchWithRetry(url, options, retries, delay)
UtilsCall ==
    /\ call.pc = "none"
    /\ \E r \in 0..MaxRetries, d \in Delays :
          /\ call' = FwrCall("https://host/any", r, d)
          /\ callLog' = IssueEvents(call')
    /\ UNCHANGED <<ufb, bgVars, notifVars>>

\* utils.js:17-24 the awaited fetch settles
UtilsSettle ==
    /\ call.pc = "fetch"
    /\ \E o \in Outcomes(PlainBodies) :
          /\ call' = FwrSettle(call, o)
          /\ callLog' = callLog \o <<OutcomeEvent(o)>> \o IssueEvents(call')
    /\ UNCHANGED <<ufb, bgVars, notifVars>>

\* utils.js:23 the delay timer fires
UtilsTimer ==
    /\ call.pc = "sleep"
    /\ call' = FwrTimer(call)
    /\ callLog' = callLog \o <<Event("wait", call.timer, "")>> \o IssueEvents(call')
    /\ UNCHANGED <<ufb, bgVars, notifVars>>

\* utils.js:3 a client calls fetchBaseUrl(): its single fetch is issued
UtilsFbCall ==
    /\ ufb.pc = "idle"
    /\ ufb' = [ufb EXCEPT !.pc = "fetch"]
    /\ UNCHANGED <<call, callLog, bgVars, notifVars>>

\* utils.js:4-10 the fetch settles and fetchBaseUrl returns
UtilsFbSettle ==
    /\ ufb.pc = "fetch"
    /\ \E o \in Outcomes(ConfigBodies) :
          ufb' = [pc |-> "done", outcome |-> o, result |-> UtilsFetchBaseUrl(o)]
    /\ UNCHANGED <<call, callLog, bgVars, notifVars>>

UtilsNext == UtilsCall \/ UtilsSettle \/ UtilsTimer \/ UtilsFbCall \/ UtilsFbSettle

----------------------------------------------------------------------------
(* background.js.  One activation per entry point:                         *)
(*   "install"    the onInstalled listener, which calls startHeartbeat()   *)
(*   "nodeTest"   the onAlarm listener running runNodeTests()              *)
(*   "rewards"    the onAlarm listener running checkForRewards()           *)
(*   "refresh"    the 60-minute setInterval callback                       *)
(*   "heartbeat"  the 6-hour setInterval callback                          *)
(* An alarm or timer whose previous activation has not finished is not     *)
(* modelled as starting a second, overlapping activation of the same entry *)
(* point.                                                                  *)

Procs == {"install", "nodeTest", "rewards", "refresh", "heartbeat"}
Callers == {"install", "nodeTest", "rewards"}      \* they call ensureBaseUrl

\* where an activation is suspended, and what it holds
\*   fwr     the fetchWithRetry frame it awaits, if any
\*   req     the URL of the plain fetch it awaits, if any
\*   tok     the token it read from storage
\*   nodes   the nodes still to test, the current one first
\*   lat     the latency measured for the current node
\*   elapsed Date.now() - start of the testNodeLatency call it awaits
\*   status  the status field of the report it has posted
\*   orphans the nodes of this run whose probe lost the race to the timeout
\*           and is still in flight (nothing cancels it)
\* and what an observer has seen of it
\*   nodesBase    the base URL value its node-list request was built from
\*   log          what runNodeTests has done so far, in order; kept after the
\*                run has ended, until the next one starts
\* and of its ensureBaseUrl() call, from the call until the first step the
\* activation takes after ensureBaseUrl has returned
\*   entry        was baseUrl resolved at the call
\*   fbCalls      fetchBaseUrl calls made
\*   ensAttempts  HTTP requests issued
\*   wrote        it assigned baseUrl
IdleProc ==
    [pc |-> "idle", fwr |-> NoFrame, req |-> "", tok |-> Null, nodes |-> <<>>,
     lat |-> 0, elapsed |-> 0, status |-> "", orphans |-> {},
     nodesBase |-> "", log |-> <<>>, entry |-> "none", fbCalls |-> 0,
     ensAttempts |-> 0, wrote |-> FALSE]

\* the observer of ensureBaseUrl lets go
Forget(r) == [r EXCEPT !.entry = "none", !.fbCalls = 0, !.ensAttempts = 0,
                       !.wrote = FALSE]

Issued(f) == IF f.pc = "fetch" THEN 1 ELSE 0

\* background.js:50 data.token || null
StoredToken == IF Truthy(token) THEN token ELSE Null

\* observer: did this resolution fail (retries exhausted, payload not
\* parseable, baseUrl field missing or empty)
ResolutionFailed(f) ==
    \/ f.pc = "threw"
    \/ ~JsonParses(f.result.body)
    \/ JsonIsNull(f.result.body)
    \/ JsonBaseUrl(f.result.body) \in {Undefined, ""}

\* background.js:75-83 testNodeLatency(node) up to its await: the start time
\* is taken, the probe and the timeout timer are started
StartProbe(r) ==
    [r EXCEPT !.pc = "probe", !.req = "http://" \o Head(r.nodes), !.elapsed = 0,
              !.lat = 0, !.status = "",
              !.log = Append(@, <<"test", Head(r.nodes)>>)]

\* an activation returns: nothing of it is left but what the observer keeps
Finished(r) == [IdleProc EXCEPT !.log = r.log]

\* an activation ends with an error nobody caught: its promise rejects
Rejected(r) == [IdleProc EXCEPT !.pc = "rejected", !.log = r.log]

\* background.js:69-71 the catch of runNodeTests
RunNodeTestsNoCatch(r) == Rejected(r)
RunNodeTestsCatch(r) == Finished(r)

\* background.js:62-68 the for-of loop of runNodeTests, at the top
LoopNodesStopOnFailure(r) ==
    IF r.nodes = <<>> \/ r.lat = -1 THEN Finished(r) ELSE StartProbe(r)
LoopNodes(r) == IF r.nodes = <<>> THEN Finished(r) ELSE StartProbe(r)

\* background.js:59 runNodeTests after `await ensureBaseUrl()`
StartNodes(r, b) ==
    [r EXCEPT !.pc = "nodes",
              !.fwr = FwrCall(b \o "/api/nodes", DefaultRetries, DefaultDelay),
              !.nodesBase = b]

\* what follows `await ensureBaseUrl()` in each caller, b the value of baseUrl
AfterEnsure(p, r, b) ==
    IF p = "nodeTest" THEN StartNodes(r, b)
    ELSE [r EXCEPT !.pc = "getToken"]

\* background.js:22-27 ensureBaseUrl() up to its first await
EnsureAlways(p, r) ==
    [r EXCEPT !.pc = "ensure",
              !.fwr = FwrCall(ConfigUrl, DefaultRetries, DefaultDelay),
              !.entry = IF Truthy(baseUrl) THEN "resolved" ELSE "unresolved",
              !.fbCalls = 1,
              !.ensAttempts = Issued(FwrCall(ConfigUrl, DefaultRetries, DefaultDelay))]
EnsureDedup(p, r) ==
    IF ~Truthy(baseUrl) /\ \A q \in Procs : proc[q].pc # "ensure"
    THEN [r EXCEPT !.pc = "ensure",
                   !.fwr = FwrCall(ConfigUrl, DefaultRetries, DefaultDelay),
                   !.entry = "unresolved", !.fbCalls = 1,
                   !.ensAttempts = Issued(FwrCall(ConfigUrl, DefaultRetries, DefaultDelay))]
    ELSE AfterEnsure(p, [r EXCEPT !.entry = IF Truthy(baseUrl) THEN "resolved" ELSE "unresolved"], baseUrl)
Ensure(p, r) ==
    IF ~Truthy(baseUrl)
    THEN [r EXCEPT !.pc = "ensure",
                   !.fwr = FwrCall(ConfigUrl, DefaultRetries, DefaultDelay),
                   !.entry = "unresolved", !.fbCalls = 1,
                   !.ensAttempts = Issued(FwrCall(ConfigUrl, DefaultRetries, DefaultDelay))]
    ELSE AfterEnsure(p, [r EXCEPT !.entry = "resolved"], baseUrl)

BgInit ==
    /\ baseUrl = Null
    /\ token \in {Null, "tok"}
    /\ proc = [p \in Procs |-> IdleProc]
    /\ hbTimer = [registered |-> FALSE, tok |-> Null]
    /\ period = [seen |-> FALSE, tokenPresent |-> FALSE, started |-> FALSE]
    /\ lastWrite = "none"

\* the user signs in or out: the popup stores or removes the token
SetToken ==
    /\ token = Null
    /\ token' = "tok"
    /\ UNCHANGED <<baseUrl, proc, hbTimer, period, lastWrite, utilVars, notifVars>>

ClearToken ==
    /\ token # Null
    /\ token' = Null
    /\ UNCHANGED <<baseUrl, proc, hbTimer, period, lastWrite, utilVars, notifVars>>

\* background.js:248-252 onInstalled: the alarms are created and
\* startHeartbeat() runs up to its first await
Install ==
    /\ proc["install"].pc = "idle"
    /\ proc' = [proc EXCEPT !["install"] = Ensure("install", IdleProc)]
    /\ UNCHANGED <<baseUrl, token, hbTimer, period, lastWrite, utilVars, notifVars>>

Installed == proc["install"].pc # "idle"

\* background.js:234-237 the nodeTestAlarm fires: runNodeTests()
NodeTestAlarm ==
    /\ Installed
    /\ proc["nodeTest"].pc = "idle"
    /\ proc' = [proc EXCEPT !["nodeTest"] = Ensure("nodeTest", IdleProc)]
    /\ UNCHANGED <<baseUrl, token, hbTimer, period, lastWrite, utilVars, notifVars>>

\* background.js:238-241 the dailyRewardsCheck alarm fires: checkForRewards()
RewardsAlarm ==
    /\ Installed
    /\ proc["rewards"].pc = "idle"
    /\ Len(pendingCreates) < MaxPending
    /\ proc' = [proc EXCEPT !["rewards"] = Ensure("rewards", IdleProc)]
    /\ UNCHANGED <<baseUrl, token, hbTimer, period, lastWrite, utilVars, notifVars>>

\* background.js:255-256 the refresh interval fires: fetchBaseUrl() is called
RefreshTick ==
    /\ proc["refresh"].pc = "idle"
    /\ proc' = [proc EXCEPT !["refresh"] =
                  [IdleProc EXCEPT !.pc = "resolve",
                                   !.fwr = FwrCall(ConfigUrl, DefaultRetries, DefaultDelay)]]
    /\ UNCHANGED <<baseUrl, token, hbTimer, period, lastWrite, utilVars, notifVars>>

\* fetchBaseUrl's fetchWithRetry moved to frame f: either it is still
\* running, or fetchBaseUrl returns and its caller assigns baseUrl
\* (background.js:24 for ensureBaseUrl, background.js:256 for the refresh)
Resolving(p, f) ==
    IF f.pc \in {"returned", "threw"}
    THEN /\ baseUrl' = FetchBaseUrl(f)
         /\ lastWrite' = IF ResolutionFailed(f) THEN "failed" ELSE "succeeded"
         /\ proc' = [proc EXCEPT ![p] =
                       IF p = "refresh" THEN IdleProc
                       ELSE AfterEnsure(p, [proc[p] EXCEPT !.wrote = TRUE,
                                                           !.fwr = NoFrame], baseUrl')]
    ELSE /\ proc' = [proc EXCEPT ![p].fwr = f,
                                 ![p].ensAttempts = @ + Issued(f)]
         /\ UNCHANGED <<baseUrl, lastWrite>>

\* background.js:33-40 under fetchBaseUrl: the config fetch settles
ResolveSettle(p) ==
    /\ proc[p].pc \in {"ensure", "resolve"}
    /\ proc[p].fwr.pc = "fetch"
    /\ \E o \in Outcomes(ConfigBodies) : Resolving(p, FwrSettle(proc[p].fwr, o))
    /\ UNCHANGED <<token, hbTimer, period, utilVars, notifVars>>

\* background.js:39 under fetchBaseUrl: the retry delay is over
ResolveTimer(p) ==
    /\ proc[p].pc \in {"ensure", "resolve"}
    /\ proc[p].fwr.pc = "sleep"
    /\ Resolving(p, FwrTimer(proc[p].fwr))
    /\ UNCHANGED <<token, hbTimer, period, utilVars, notifVars>>

\* background.js:198-204 startHeartbeat after `await getToken()`: without a
\* token it returns, with one it registers the 6-hour interval
HeartbeatGetToken ==
    /\ proc["install"].pc = "getToken"
    /\ proc' = [proc EXCEPT !["install"] = [IdleProc EXCEPT !.pc = "done"]]
    /\ hbTimer' = IF Truthy(StoredToken)
                  THEN [registered |-> TRUE, tok |-> StoredToken]
                  ELSE hbTimer
    /\ UNCHANGED <<baseUrl, token, period, lastWrite, utilVars, notifVars>>

\* background.js:127-136 checkForRewards after `await getToken()`: without a
\* token it returns, with one it requests {baseUrl}/api/rewards
RewardsGetToken ==
    /\ proc["rewards"].pc = "getToken"
    /\ proc' = [proc EXCEPT !["rewards"] =
                  IF Truthy(StoredToken)
                  THEN [Forget(@) EXCEPT !.pc = "rewardsFetch", !.tok = StoredToken,
                                         !.req = baseUrl \o "/api/rewards"]
                  ELSE Finished([@ EXCEPT !.log = <<<<"rewards", "no token">>>>])]
    /\ UNCHANGED <<baseUrl, token, hbTimer, period, lastWrite, utilVars, notifVars>>

\* observer: how the rewards request of a check ended
RewardsEvent(o) ==
    <<"rewards", IF o.err THEN "failed" ELSE IF ~o.ok THEN "not ok" ELSE o.body>>

\* background.js:138-150 the links checkForRewards hands to showNotification
\* when its request has settled with outcome o: one if the response is ok
\* and its payload has a key, none otherwise (a failed request, a payload
\* that does not parse and the TypeError of Object.keys(null) end in the
\* catch at line 148)
RewardsNotificationsAnyPayload(o) ==
    IF ~o.err /\ o.ok /\ JsonParses(o.body) /\ ~JsonIsNull(o.body)
    THEN <<JsonLink(o.body)>>
    ELSE <<>>
RewardsNotifications(o) ==
    IF ~o.err /\ o.ok /\ JsonParses(o.body) /\ ~JsonIsNull(o.body)
       /\ JsonKeys(o.body) > 0
    THEN <<JsonLink(o.body)>>
    ELSE <<>>

\* background.js:138-150,157-169 the rewards request settles; showNotification
\* calls chrome.notifications.create, whose callback runs later
RewardsSettle ==
    /\ proc["rewards"].pc = "rewardsFetch"
    /\ \E o \in Outcomes(RewardBodies) :
          /\ proc' = [proc EXCEPT !["rewards"] =
                        Finished([@ EXCEPT !.log = <<RewardsEvent(o)>>])]
          /\ pendingCreates' = pendingCreates \o RewardsNotifications(o)
    /\ UNCHANGED <<baseUrl, token, hbTimer, period, lastWrite, utilVars,
                   notificationLinks, lastClick>>

\* the id every notification is created with (background.js:166)
RewardsNotification == "rewardsNotification"

\* notificationLinks[id] as JavaScript reads it
StoredLink(id) ==
    IF id \in DOMAIN notificationLinks THEN notificationLinks[id] ELSE Undefined

\* background.js:166-168 the callback of chrome.notifications.create stores
\* the link under the notification id
NotificationCreated ==
    /\ pendingCreates # <<>>
    /\ notificationLinks' =
          [id \in DOMAIN notificationLinks \cup {RewardsNotification} |->
             IF id = RewardsNotification THEN Head(pendingCreates)
             ELSE notificationLinks[id]]
    /\ pendingCreates' = Tail(pendingCreates)
    /\ lastClick' = [lastClick EXCEPT !.storedSince = TRUE]
    /\ UNCHANGED <<bgVars, utilVars>>

\* background.js:173 the condition of the click listener
ClickOpensAnyButton(stored, buttonIndex) == Truthy(stored)
ClickOpens(stored, buttonIndex) == Truthy(stored) /\ buttonIndex = 0

\* background.js:172-177 the onButtonClicked listener
ButtonClicked(notificationId, buttonIndex) ==
    /\ notificationLinks' =
          IF ClickOpens(StoredLink(notificationId), buttonIndex)
          THEN [id \in DOMAIN notificationLinks \ {notificationId} |->
                  notificationLinks[id]]
          ELSE notificationLinks
    /\ lastClick' =
          [id |-> notificationId, button |-> buttonIndex,
           opened |-> IF ClickOpens(StoredLink(notificationId), buttonIndex)
                      THEN <<StoredLink(notificationId)>> ELSE <<>>,
           n |-> 1 - lastClick.n, storedSince |-> FALSE]
    /\ UNCHANGED <<bgVars, utilVars, pendingCreates>>

\* the clicks a user can make
ClickIds == {RewardsNotification, "other"}
Buttons == {0, 1}

\* the node-list fetchWithRetry of runNodeTests moved to frame f
\* (background.js:59-71): still running, failed (caught at line 69), or
\* returned a body that is parsed and iterated
NodeListProbesAnyway(f) ==
    IF f.pc \in {"threw", "returned"}
    THEN LoopNodes([Forget(proc["nodeTest"]) EXCEPT
                      !.fwr = NoFrame,
                      !.nodes = IF f.pc = "returned" /\ JsonParses(f.result.body)
                                THEN JsonNodes(f.result.body) ELSE <<"n1">>,
                      !.log = <<<<"nodes", IF f.pc = "threw" THEN "threw"
                                           ELSE f.result.body>>>>])
    ELSE [Forget(proc["nodeTest"]) EXCEPT !.fwr = f]
NodeList(f) ==
    IF f.pc = "threw"
    THEN RunNodeTestsCatch([proc["nodeTest"] EXCEPT !.log = <<<<"nodes", "threw">>>>])
    ELSE IF f.pc = "returned"
         THEN IF JsonParses(f.result.body)
              THEN LoopNodes([Forget(proc["nodeTest"]) EXCEPT
                                !.fwr = NoFrame, !.nodes = JsonNodes(f.result.body),
                                !.log = <<<<"nodes", f.result.body>>>>])
              ELSE RunNodeTestsCatch([proc["nodeTest"] EXCEPT
                                        !.log = <<<<"nodes", f.result.body>>>>])
         ELSE [Forget(proc["nodeTest"]) EXCEPT !.fwr = f]

\* background.js:33-40 under runNodeTests: the node-list fetch settles
NodesSettle ==
    /\ proc["nodeTest"].pc = "nodes"
    /\ proc["nodeTest"].fwr.pc = "fetch"
    /\ \E o \in Outcomes(NodeBodies) :
          proc' = [proc EXCEPT !["nodeTest"] = NodeList(FwrSettle(proc["nodeTest"].fwr, o))]
    /\ UNCHANGED <<baseUrl, token, hbTimer, period, lastWrite, utilVars, notifVars>>

\* background.js:39 under runNodeTests: the retry delay is over
NodesTimer ==
    /\ proc["nodeTest"].pc = "nodes"
    /\ proc["nodeTest"].fwr.pc = "sleep"
    /\ proc' = [proc EXCEPT !["nodeTest"] = NodeList(FwrTimer(proc["nodeTest"].fwr))]
    /\ UNCHANGED <<baseUrl, token, hbTimer, period, lastWrite, utilVars, notifVars>>

\* the timeout handed to setTimeout by testNodeLatency (background.js:77)
TimeoutTwice == 2 * ProbeTimeout
Timeout == ProbeTimeout

\* time passes while testNodeLatency awaits its race; the timeout timer
\* fires when it is due, so the clock does not pass it
ProbeTick ==
    /\ proc["nodeTest"].pc = "probe"
    /\ proc["nodeTest"].elapsed < Timeout
    /\ proc' = [proc EXCEPT !["nodeTest"].elapsed =
                  IF @ + TickMs < Timeout THEN @ + TickMs ELSE Timeout]
    /\ UNCHANGED <<baseUrl, token, hbTimer, period, lastWrite, utilVars, notifVars>>

\* background.js:84-87 what testNodeLatency returns once its race is decided
TestNodeLatency(won, elapsed) == IF won = "resolved" THEN elapsed ELSE -1

\* background.js:63-65,93 testNodeLatency has returned l: runNodeTests logs
\* it and calls reportTestResult, which calls getToken()
Tested(r, l) ==
    [r EXCEPT !.pc = "repToken", !.req = "", !.lat = l,
              !.log = Append(@, <<"report", Head(r.nodes)>>)]

\* background.js:80-87 the probe settles first: it resolves (any response,
\* the mode is no-cors) or rejects
ProbeSettle ==
    /\ proc["nodeTest"].pc = "probe"
    /\ \E won \in {"resolved", "rejected"} :
          proc' = [proc EXCEPT !["nodeTest"] =
                     Tested(@, TestNodeLatency(won, proc["nodeTest"].elapsed))]
    /\ UNCHANGED <<baseUrl, token, hbTimer, period, lastWrite, utilVars, notifVars>>

\* background.js:82 the timeout fires first: the race rejects, the probe
\* stays in flight
ProbeTimedOut ==
    /\ proc["nodeTest"].pc = "probe"
    /\ proc["nodeTest"].elapsed = Timeout
    /\ proc' = [proc EXCEPT !["nodeTest"] =
                  Tested([@ EXCEPT !.orphans = @ \cup {Head(proc["nodeTest"].nodes)}],
                         TestNodeLatency("timeout", proc["nodeTest"].elapsed))]
    /\ UNCHANGED <<baseUrl, token, hbTimer, period, lastWrite, utilVars, notifVars>>

\* background.js:81 a probe that lost its race settles; nobody listens
OrphanSettle ==
    /\ \E n \in proc["nodeTest"].orphans :
          proc' = [proc EXCEPT !["nodeTest"].orphans = @ \ {n}]
    /\ UNCHANGED <<baseUrl, token, hbTimer, period, lastWrite, utilVars, notifVars>>

\* the base URL a result report is sent to (background.js:100)
ReportBaseCaptured(r) == r.nodesBase
ReportBase(r) == baseUrl

\* background.js:110 the status field of a report
ReportStatusNotSentinel(latency) == IF latency # -1 THEN "online" ELSE "offline"
ReportStatus(latency) == IF latency > 0 THEN "online" ELSE "offline"

\* background.js:93-112 reportTestResult after `await getToken()`: without a
\* token it returns and the loop goes on, with one it posts the result
ReportGetToken ==
    /\ proc["nodeTest"].pc = "repToken"
    /\ proc' = [proc EXCEPT !["nodeTest"] =
                  IF Truthy(StoredToken)
                  THEN [@ EXCEPT !.pc = "report", !.tok = StoredToken,
                                 !.req = ReportBase(proc["nodeTest"]) \o "/api/test",
                                 !.status = ReportStatus(proc["nodeTest"].lat)]
                  ELSE LoopNodes([@ EXCEPT !.nodes = Tail(@), !.tok = Null])]
    /\ UNCHANGED <<baseUrl, token, hbTimer, period, lastWrite, utilVars, notifVars>>

\* background.js:114-121 after the report has settled with outcome o: it is
\* logged either way and reportTestResult returns; the loop goes on
AfterReportRetry(r, o) ==
    IF o.err \/ ~o.ok THEN [r EXCEPT !.log = Append(@, <<"report", Head(r.nodes)>>)]
    ELSE LoopNodes([r EXCEPT !.nodes = Tail(@), !.req = "", !.tok = Null])
AfterReport(r, o) ==
    LoopNodes([r EXCEPT !.nodes = Tail(@), !.req = "", !.tok = Null])

\* background.js:100-121 the report settles
ReportSettle ==
    /\ proc["nodeTest"].pc = "report"
    /\ \E o \in Outcomes({""}) :
          proc' = [proc EXCEPT !["nodeTest"] = AfterReport(proc["nodeTest"], o)]
    /\ UNCHANGED <<baseUrl, token, hbTimer, period, lastWrite, utilVars, notifVars>>

\* Six hours have passed since the last period.  background.js:204-206: if
\* the interval was registered its callback starts and calls getGeoLocation()
HeartbeatPeriod ==
    /\ proc["install"].pc = "done"
    /\ proc["heartbeat"].pc = "idle"
    /\ period' = [seen |-> TRUE, tokenPresent |-> Truthy(token),
                  started |-> hbTimer.registered]
    /\ proc' = IF hbTimer.registered
               THEN [proc EXCEPT !["heartbeat"] =
                       [IdleProc EXCEPT !.pc = "geo", !.tok = hbTimer.tok,
                                        !.req = "https://ipapi.co/json/"]]
               ELSE proc
    /\ UNCHANGED <<baseUrl, token, hbTimer, lastWrite, utilVars, notifVars>>

\* background.js:182-207 the geolocation lookup settles (a failure yields
\* the default location) and the heartbeat is posted
GeoSettle ==
    /\ proc["heartbeat"].pc = "geo"
    /\ proc' = [proc EXCEPT !["heartbeat"].pc = "hbPost",
                            !["heartbeat"].req = baseUrl \o "/api/heartbeat"]
    /\ UNCHANGED <<baseUrl, token, hbTimer, period, lastWrite, utilVars, notifVars>>

\* background.js:220-227 the heartbeat post settles, whatever the outcome
HeartbeatSettle ==
    /\ proc["heartbeat"].pc = "hbPost"
    /\ proc' = [proc EXCEPT !["heartbeat"] = IdleProc]
    /\ UNCHANGED <<baseUrl, token, hbTimer, period, lastWrite, utilVars, notifVars>>

NotifInit ==
    /\ notificationLinks = [id \in {} |-> ""]
    /\ pendingCreates = <<>>
    /\ lastClick = [id |-> "", button |-> 0, opened |-> <<>>, n |-> 0,
                    storedSince |-> FALSE]

\* every step of the background page
BgNext ==
    \/ SetToken \/ ClearToken
    \/ Install \/ NodeTestAlarm \/ RewardsAlarm \/ RefreshTick
    \/ \E p \in Procs : ResolveSettle(p)
    \/ \E p \in Procs : ResolveTimer(p)
    \/ HeartbeatGetToken \/ RewardsGetToken \/ RewardsSettle
    \/ NotificationCreated
    \/ \E id \in ClickIds, b \in Buttons : ButtonClicked(id, b)
    \/ NodesSettle \/ NodesTimer
    \/ ProbeTick \/ ProbeSettle \/ ProbeTimedOut \/ OrphanSettle
    \/ ReportGetToken \/ ReportSettle
    \/ HeartbeatPeriod \/ GeoSettle \/ HeartbeatSettle

----------------------------------------------------------------------------
(* Specifications *)

Init == BgInit /\ UtilsInit /\ NotifInit

\* The background page with all its entry points running concurrently, each
\* followed through every request it makes.  A latency probe is followed
\* while it settles before any time has passed, and the rewards check up to
\* its request; SpecNodeTests and SpecRewards follow those further.
Next ==
    \/ SetToken \/ ClearToken
    \/ Install \/ NodeTestAlarm \/ RewardsAlarm \/ RefreshTick
    \/ \E p \in Procs : ResolveSettle(p)
    \/ \E p \in Procs : ResolveTimer(p)
    \/ HeartbeatGetToken \/ RewardsGetToken
    \/ NodesSettle \/ NodesTimer
    \/ ProbeSettle
    \/ ReportGetToken \/ ReportSettle
    \/ HeartbeatPeriod \/ GeoSettle \/ HeartbeatSettle
Spec == Init /\ [][Next]_vars

\* The node-test task in full, with the clock of its probes, under the
\* resolver, the refresh timer and a user who signs in and out.
NodeTestsNext ==
    \/ SetToken \/ ClearToken
    \/ Install \/ NodeTestAlarm \/ RefreshTick
    \/ \E p \in Procs : ResolveSettle(p)
    \/ \E p \in Procs : ResolveTimer(p)
    \/ NodesSettle \/ NodesTimer
    \/ ProbeTick \/ ProbeSettle \/ ProbeTimedOut \/ OrphanSettle
    \/ ReportGetToken \/ ReportSettle
SpecNodeTests == Init /\ [][NodeTestsNext]_vars

\* The rewards check in full, with the notifications it creates and the
\* clicks of a user on their buttons.
RewardsNext ==
    \/ SetToken \/ ClearToken
    \/ Install \/ RewardsAlarm
    \/ \E p \in Procs : ResolveSettle(p)
    \/ \E p \in Procs : ResolveTimer(p)
    \/ RewardsGetToken \/ RewardsSettle
    \/ NotificationCreated
    \/ \E id \in ClickIds, b \in Buttons : ButtonClicked(id, b)
SpecRewards == Init /\ [][RewardsNext]_vars

\* Every task of the page from its start to its end, under every outcome of
\* its requests, the tasks taking turns: a timer or alarm fires when no
\* other task is under way.  (How a task ends depends on the outcomes of its
\* own requests and on the token and base URL it reads, not on the position
\* of another task.)
Quiet == \A p \in Procs : proc[p].pc \in {"idle", "done"}
TasksNext ==
    \/ SetToken \/ ClearToken
    \/ Install
    \/ \E p \in Procs : ResolveSettle(p)
    \/ \E p \in Procs : ResolveTimer(p)
    \/ HeartbeatGetToken
    \/ Quiet /\ NodeTestAlarm
    \/ Quiet /\ RewardsAlarm
    \/ Quiet /\ RefreshTick
    \/ Quiet /\ HeartbeatPeriod
    \/ RewardsGetToken \/ RewardsSettle \/ NotificationCreated
    \/ NodesSettle \/ NodesTimer
    \/ ProbeTick \/ ProbeSettle \/ ProbeTimedOut \/ OrphanSettle
    \/ ReportGetToken \/ ReportSettle
    \/ GeoSettle \/ HeartbeatSettle
SpecTasks == Init /\ [][TasksNext]_vars

\* the exported helpers of utils.js under a client
SpecUtils == Init /\ [][UtilsNext]_vars

\* The base-URL resolver with its callers and the refresh timer, each caller
\* followed up to the return of its ensureBaseUrl() call.  (A caller finds
\* baseUrl unresolved only in an activation that starts before the first
\* resolution completes; what the callers do after ensureBaseUrl returns
\* neither reads nor writes the state of a resolution that is under way.)
\* Fairness: an issued fetch eventually settles and a set timer eventually
\* fires.
ResolverNext ==
    \/ Install \/ NodeTestAlarm \/ RewardsAlarm \/ RefreshTick
    \/ \E p \in Procs : ResolveSettle(p)
    \/ \E p \in Procs : ResolveTimer(p)
SpecResolver ==
    /\ Init
    /\ [][ResolverNext]_vars
    /\ \A p \in Procs : WF_vars(ResolveSettle(p)) /\ WF_vars(ResolveTimer(p))

\* Every fetchWithRetry call: the one a client of utils.js makes with any
\* retries and delay, and the ones the base-URL resolver of background.js
\* makes for its callers and the refresh timer.  utils.js is not loaded by
\* the background page, so a behaviour follows the client or the page.
\* Fairness: an issued fetch eventually settles and a set timer eventually
\* fires.
PageAtRest == baseUrl = Null /\ \A p \in Procs : proc[p].pc = "idle"
TerminationNext ==
    \/ PageAtRest /\ UtilsCall
    \/ UtilsSettle \/ UtilsTimer
    \/ call.pc = "none" /\ ResolverNext
SpecTermination ==
    /\ Init
    /\ [][TerminationNext]_vars
    /\ WF_vars(UtilsSettle) /\ WF_vars(UtilsTimer)
    /\ \A p \in Procs : WF_vars(ResolveSettle(p)) /\ WF_vars(ResolveTimer(p))

----------------------------------------------------------------------------
(* Properties of fetchWithRetry (checked under SpecUtils) *)

FailEvs == {"neterr", "notok"}
Count(evs) == Cardinality({i \in DOMAIN callLog : callLog[i].ev \in evs})

\* C1: a fetchWithRetry call issues at most `retries` attempts; every attempt
\* but the first directly follows exactly one wait of `delay` that itself
\* directly follows a failed attempt; every wait sits between a failed
\* attempt and the next attempt, so there is none before the first attempt
\* and none after the last.
C1_BoundedAttemptsFixedDelay ==
    /\ Count({"attempt"}) <= call.retries
    /\ callLog # <<>> => callLog[1].ev = "attempt"
    /\ call.pc = "sleep" => /\ Count({"attempt"}) < call.retries
                            /\ call.timer = call.delay
                            /\ callLog[Len(callLog)].ev \in FailEvs
    /\ \A i \in DOMAIN callLog :
          /\ (callLog[i].ev = "attempt" /\ i > 1) =>
                /\ i >= 3
                /\ callLog[i-1] = Event("wait", call.delay, "")
                /\ callLog[i-2].ev \in FailEvs
          /\ callLog[i].ev = "wait" =>
                /\ i > 1 /\ i < Len(callLog)
                /\ callLog[i-1].ev \in FailEvs
                /\ callLog[i+1].ev = "attempt"
          /\ (callLog[i].ev \in FailEvs /\ i < Len(callLog)) =>
                callLog[i+1].ev = "wait"

\* three attempts, two of them after a full default delay
C1_Witness ==
    /\ call.retries = DefaultRetries /\ call.delay = DefaultDelay
    /\ Count({"attempt"}) = 3 /\ Count({"wait"}) = 2

\* C2: once `retries` attempts (retries >= 1) have failed, by a network error
\* or a response that is not ok, the call has thrown the terminal error
\* after exactly `retries` attempts and `retries - 1` delays, and nothing
\* more is issued.
C2_ExhaustionThrows ==
    (call.retries >= 1 /\ Count(FailEvs) >= call.retries) =>
        /\ call.pc = "threw"
        /\ Count({"attempt"}) = call.retries
        /\ Count(FailEvs) = call.retries
        /\ Count({"wait"}) = call.retries - 1
        /\ Count({"ok"}) = 0

\* retries = 3, failures of both kinds, no fourth attempt
C2_Witness ==
    /\ call.retries = 3 /\ call.pc = "threw"
    /\ Count({"neterr"}) >= 1 /\ Count({"notok"}) >= 1
    /\ Count({"attempt"}) = 3

\* C3: if k attempts failed and attempt k+1 got an ok response, the call has
\* returned that response after exactly k delays and k+1 attempts
\* (k < retries), and the ok response is the last event of the call.
C3_SuccessAfterFailures ==
    \A i \in DOMAIN callLog :
        callLog[i].ev = "ok" =>
            /\ i = Len(callLog)
            /\ call.pc = "returned"
            /\ call.result = Ok(callLog[i].body)
            /\ Count({"attempt"}) = Count(FailEvs) + 1
            /\ Count({"wait"}) = Count(FailEvs)
            /\ Count(FailEvs) < call.retries

\* retries = 3, two failures, then the successful response after two delays
C3_Witness ==
    /\ call.retries = 3 /\ call.pc = "returned"
    /\ Count(FailEvs) = 2 /\ Count({"wait"}) = 2
    /\ call.result = Ok("r2")

----------------------------------------------------------------------------
(* Properties of the base-URL resolver *)

\* C4: once a resolution has completed and written baseUrl it is never
\* unset again, and whenever the resolution that last wrote it failed it
\* holds the fallback.
C4_BaseUrlStaysSet ==
    /\ lastWrite # "none" => Truthy(baseUrl)
    /\ lastWrite = "failed" => baseUrl = Fallback

\* a failed resolution wrote the fallback while the refresh and a late
\* ensureBaseUrl are both still resolving
C4_Witness ==
    /\ lastWrite = "failed" /\ baseUrl = Fallback
    /\ proc["refresh"].pc = "resolve"
    /\ \E p \in Callers : proc[p].pc = "ensure"

\* what the claim calls a failure of the utils.js resolver's single request
UtilsResolutionFailed(o) ==
    \/ o.err
    \/ ~o.ok
    \/ ~JsonParses(o.body)
    \/ JsonIsNull(o.body)
    \/ JsonBaseUrl(o.body) \in {Undefined, ""}

\* C5: every fetchBaseUrl of the repository returns the fallback, never an
\* empty or undefined value, on any failure (network error or exhausted
\* retries, non-success status, unparseable payload, baseUrl field missing
\* or empty).
C5_ResolverFallsBack ==
    /\ (ufb.pc = "done" /\ UtilsResolutionFailed(ufb.outcome)) =>
           ufb.result = Fallback
    /\ ufb.pc = "done" => Truthy(ufb.result)
    /\ lastWrite = "failed" => baseUrl = Fallback

----------------------------------------------------------------------------
(* Properties of the task runners *)

\* C6: without a stored token, reportTestResult and startHeartbeat (and its
\* timer) issue no network request at all, also when the base URL is still
\* unresolved: a startHeartbeat that returns for want of a token has issued
\* no request, a reportTestResult that finds no token posts nothing, and
\* without the interval no heartbeat callback ever runs.
C6_NoTokenNoNetwork ==
    [][ /\ ( /\ proc["install"].pc = "getToken"
             /\ proc'["install"].pc = "done"
             /\ ~Truthy(token) )
           => proc["install"].ensAttempts = 0
        /\ ( /\ proc["nodeTest"].pc = "repToken"
             /\ proc'["nodeTest"].pc # "repToken"
             /\ ~Truthy(token) )
           => proc'["nodeTest"].pc # "report"
        /\ ~hbTimer'.registered => proc'["heartbeat"].pc = "idle"
      ]_vars

\* C7: at every 6-hour period after installation a heartbeat is started
\* exactly when a token is in storage at that time, whatever was in storage
\* when startHeartbeat ran.
C7_HeartbeatEveryPeriod ==
    period.seen => (period.started <=> period.tokenPresent)

\* C8 as stated: the result reports of a runNodeTests run target the base
\* URL value its node-list request was built from, and baseUrl is never
\* unset once written.
C8_OneBasePerRun ==
    /\ proc["nodeTest"].pc = "report" =>
           proc["nodeTest"].req = proc["nodeTest"].nodesBase \o "/api/test"
    /\ lastWrite # "none" => Truthy(baseUrl)

\* the URL of the request an activation has in flight ("" if none)
InFlight(p) ==
    IF proc[p].fwr.pc \in {"fetch", "sleep"} THEN proc[p].fwr.url ELSE proc[p].req
InFlightNext(p) ==
    IF proc'[p].fwr.pc \in {"fetch", "sleep"} THEN proc'[p].fwr.url ELSE proc'[p].req

\* C8 as amended: a request keeps the URL it was built with for as long as
\* it is in flight, every retry of a fetchWithRetry call included, whatever
\* is assigned to baseUrl meanwhile; a request built from baseUrl uses the
\* value baseUrl has at that moment, so a result report posted after an
\* assignment targets the new value even though the node-list request of the
\* same run targeted the old one; and baseUrl, once set, never takes an
\* unset value.
C8_ReadsSeeCurrentValue ==
    [][ /\ \A p \in Procs :
              (proc[p].pc = proc'[p].pc /\ proc[p].pc # "idle" /\ proc[p].nodes = proc'[p].nodes)
                  => InFlightNext(p) = InFlight(p)
        /\ (proc["nodeTest"].pc # "nodes" /\ proc'["nodeTest"].pc = "nodes")
              => proc'["nodeTest"].fwr.url = baseUrl' \o "/api/nodes"
        /\ (proc["nodeTest"].pc # "report" /\ proc'["nodeTest"].pc = "report")
              => proc'["nodeTest"].req = baseUrl \o "/api/test"
        /\ (proc["rewards"].pc # "rewardsFetch" /\ proc'["rewards"].pc = "rewardsFetch")
              => proc'["rewards"].req = baseUrl \o "/api/rewards"
        /\ (proc["heartbeat"].pc # "hbPost" /\ proc'["heartbeat"].pc = "hbPost")
              => proc'["heartbeat"].req = baseUrl \o "/api/heartbeat"
        /\ Truthy(baseUrl) => Truthy(baseUrl')
      ]_vars

\* a result report in flight to the current base URL, which is no longer
\* the one the node list of its run came from
C8_Witness ==
    /\ proc["nodeTest"].pc = "report"
    /\ proc["nodeTest"].req = baseUrl \o "/api/test"
    /\ proc["nodeTest"].nodesBase # baseUrl
    /\ Truthy(proc["nodeTest"].nodesBase)

\* C9: an ensureBaseUrl call made while baseUrl is resolved calls
\* fetchBaseUrl zero times, issues no request and does not assign baseUrl;
\* one made while it is unresolved makes exactly one fetchBaseUrl call, of
\* one to three HTTP attempts, assigns baseUrl and leaves it resolved.
C9_EnsureOnce ==
    \A p \in Callers :
        /\ proc[p].entry = "resolved" =>
              /\ proc[p].pc # "ensure"
              /\ proc[p].fbCalls = 0 /\ proc[p].ensAttempts = 0
              /\ ~proc[p].wrote
        /\ proc[p].pc = "ensure" =>
              /\ proc[p].entry = "unresolved"
              /\ proc[p].fbCalls = 1
              /\ proc[p].ensAttempts \in 1..DefaultRetries
        /\ (proc[p].entry = "unresolved" /\ proc[p].pc # "ensure") =>
              /\ proc[p].fbCalls = 1
              /\ proc[p].ensAttempts \in 1..DefaultRetries
              /\ proc[p].wrote
              /\ Truthy(baseUrl)

\* one caller back from an ensureBaseUrl that took all three attempts, and
\* another back from one that found baseUrl resolved
C9_Witness ==
    \E p, q \in Callers :
        /\ proc[p].entry = "unresolved" /\ proc[p].pc # "ensure"
        /\ proc[p].ensAttempts = 3
        /\ proc[q].entry = "resolved"

\* C10: every caller that calls ensureBaseUrl while baseUrl is unresolved
\* makes its own fetchBaseUrl call, whoever else is resolving; each such
\* call eventually returns; and when none is left resolving baseUrl is
\* resolved.
C10_NoDedupAllComplete ==
    /\ [](\A p \in Callers :
             proc[p].entry = "unresolved" =>
                 proc[p].fbCalls = 1 /\ proc[p].ensAttempts >= 1)
    /\ [](( /\ \E p \in Callers : proc[p].entry = "unresolved"
            /\ \A p \in Callers : proc[p].pc # "ensure" )
          => Truthy(baseUrl))
    /\ \A p \in Callers : (proc[p].pc = "ensure") ~> (proc[p].pc # "ensure")

\* startHeartbeat, runNodeTests and checkForRewards all resolving at once
C10_Witness ==
    \A p \in Callers : proc[p].pc = "ensure" /\ proc[p].fwr.pc = "fetch"


----------------------------------------------------------------------------
(* Properties of the node-test task (checked under SpecNodeTests) *)

RECURSIVE TestReportEvents(_)
\* the events of a run over the nodes ns, as the log records them
TestReportEvents(ns) ==
    IF ns = <<>> THEN <<>>
    ELSE <<<<"test", Head(ns)>>, <<"report", Head(ns)>>>> \o TestReportEvents(Tail(ns))

\* the log of a complete run that received the node-list payload b
ExpectedLog(b) == <<<<"nodes", b>>>> \o TestReportEvents(JsonNodes(b))

\* the run is in its loop
InLoop(r) == r.pc \in {"probe", "repToken", "report"}

\* the probes and reports of the run that are in flight
InFlightOfRun(r) ==
    Cardinality(r.orphans) + (IF r.pc \in {"probe", "report"} THEN 1 ELSE 0)

\* the events up to the one the run is waiting for: node i of the list is
\* under test after 2(i-1) earlier events, and under report after 2i-1
OrderedSoFar(r) ==
    \E b \in NodeBodies :
       LET ns == JsonNodes(b)
           done == Len(ns) - Len(r.nodes)
           upTo == 1 + 2 * done + (IF r.pc = "probe" THEN 1 ELSE 2)
       IN /\ done >= 0
          /\ r.nodes = SubSeq(ns, done + 1, Len(ns))
          /\ upTo <= Len(ExpectedLog(b))
          /\ r.log = SubSeq(ExpectedLog(b), 1, upTo)

\* a run that got its node list and has ended went through all of it
CompleteAtEnd(r) ==
    (r.log # <<>> /\ JsonParses(r.log[1][2]) /\ r.log[1][2] \in NodeBodies)
       => r.log = ExpectedLog(r.log[1][2])

C11_Order ==
    LET r == proc["nodeTest"]
    IN /\ InLoop(r) => OrderedSoFar(r)
       /\ r.pc = "idle" => CompleteAtEnd(r)

\* C11 (as stated): within one run the events occur in the order test(n1),
\* report(n1), ..., test(nk), report(nk), each node probed once, a failure
\* does not stop the later nodes, and at most one probe or report of the run
\* is in flight at any time.
C11_StrictOrderOneInFlight ==
    C11_Order /\ InFlightOfRun(proc["nodeTest"]) <= 1

\* C11 (amended): within one run the tests and reports are started in the
\* order test(n1), report(n1), ..., test(nk), report(nk), each node once,
\* the run waits for one of them at a time, and a failed or timed-out probe
\* or a failed report does not stop the later nodes; only the probes that
\* lost the race to the timeout can be in flight besides the one request the
\* run is waiting for.
C11_OrderOneAwaited ==
    /\ C11_Order
    /\ LET r == proc["nodeTest"]
       IN /\ r.orphans \subseteq {r.log[i][2] : i \in {j \in DOMAIN r.log : r.log[j][1] = "test"}}
          /\ (r.pc = "probe" => Head(r.nodes) \notin r.orphans)
          /\ (~InLoop(r) => r.orphans = {})

\* the second node is under test after the probe of the first timed out and
\* while that probe is still in flight
C11_Witness ==
    /\ proc["nodeTest"].pc = "probe"
    /\ proc["nodeTest"].nodes = <<"n2">>
    /\ proc["nodeTest"].orphans = {"n1"}


C16_OnePostThenNextNode ==
    [][LET r == proc["nodeTest"]
           q == proc'["nodeTest"]
       IN /\ (r.pc = "repToken" /\ q.pc # "repToken" /\ Truthy(token)) =>
                /\ q.pc = "report"
                /\ q.req = baseUrl \o "/api/test"
                /\ q.nodes = r.nodes
                /\ q.log = r.log
          /\ (r.pc = "report" /\ q.pc = "report") =>
                /\ q.log = r.log
                /\ q.req = r.req
          /\ (r.pc = "report" /\ q.pc # "report") =>
                /\ q.pc = IF Len(r.nodes) > 1 THEN "probe" ELSE "idle"
                /\ q.pc = "probe" =>
                      /\ q.nodes = Tail(r.nodes)
                      /\ q.log = Append(r.log, <<"test", Head(q.nodes)>>)]_vars

\* the report of the first of two nodes is in flight
C16_Witness ==
    /\ proc["nodeTest"].pc = "report"
    /\ proc["nodeTest"].nodes = <<"n1", "n2">>
    /\ proc["nodeTest"].req = baseUrl \o "/api/test"
    /\ Truthy(proc["nodeTest"].tok)

\* the node-list request of the run failed for good
NodeListFailed(r) ==
    r.log # <<>> /\ r.log[1] \in {<<"nodes", "threw">>, <<"nodes", "not json">>}

\* C17: when the node-list request of a run exhausts its retries or its
\* payload cannot be parsed, the run ends there: nothing is probed, nothing
\* is reported, the error is not propagated, and the next run can start.
C17_NodeListFailureEndsRun ==
    LET r == proc["nodeTest"]
    IN NodeListFailed(r) =>
          /\ r = Finished([IdleProc EXCEPT !.log = <<r.log[1]>>])
          /\ ENABLED NodeTestAlarm

\* a run has ended on a node-list request that used up its attempts
C17_Witness ==
    /\ proc["nodeTest"].pc = "idle"
    /\ proc["nodeTest"].log = <<<<"nodes", "threw">>>>

\* C19: the posted result carries the latency testNodeLatency returned, and
\* its status is "offline" exactly when that latency is -1.
C19_OfflineIffSentinel ==
    proc["nodeTest"].pc = "report" =>
       (proc["nodeTest"].status = "offline" <=> proc["nodeTest"].lat = -1)


----------------------------------------------------------------------------
(* Properties of the tasks' error handling (checked under SpecTasks) *)

\* C13: whatever its requests settle with and whether or not a token is
\* stored, no task ends with an error nobody caught, and when no task is
\* under way every alarm and timer can start its task again.
C13_NoTaskRejects ==
    /\ \A p \in Procs : proc[p].pc # "rejected"
    /\ (Quiet /\ Installed) =>
          /\ ENABLED NodeTestAlarm
          /\ ENABLED RefreshTick
          /\ Len(pendingCreates) < MaxPending => ENABLED RewardsAlarm
          /\ proc["install"].pc = "done" => ENABLED HeartbeatPeriod

\* a node-test run and a rewards check have both ended on a malformed
\* payload
C13_Witness ==
    /\ Quiet
    /\ proc["nodeTest"].log = <<<<"nodes", "not json">>>>
    /\ proc["rewards"].log = <<<<"rewards", "null">>>>

----------------------------------------------------------------------------
(* Properties of the rewards check and the notifications (SpecRewards) *)

\* C14: a rewards check whose request succeeds creates no notification on
\* the payload {} and one notification, stored under its id with the
\* payload's link, on the payload {link: L}; a check without a token, with a
\* non-success response or with a failed request creates none.
C14_NotificationIffLink ==
    [][LET r == proc["rewards"]
           q == proc'["rewards"]
       IN /\ (r.pc = "getToken" /\ q.pc = "idle") =>
                /\ q.log = <<<<"rewards", "no token">>>>
                /\ pendingCreates' = pendingCreates
          /\ (r.pc = "rewardsFetch" /\ q.pc # "rewardsFetch") =>
                /\ q.pc = "idle"
                /\ q.log[1][2] \in {"failed", "not ok", "{}"} =>
                      pendingCreates' = pendingCreates
                /\ q.log[1][2] = "{link:'https://y'}" =>
                      pendingCreates' = Append(pendingCreates, "https://y")
          /\ pendingCreates' # pendingCreates =>
                \/ r.pc = "rewardsFetch" /\ q.pc = "idle"
                \/ /\ pendingCreates # <<>>
                   /\ pendingCreates' = Tail(pendingCreates)
                   /\ StoredLink(RewardsNotification)' = Head(pendingCreates)]_vars

\* the notification of a check that received {link: L} is stored with L
C14_Witness ==
    /\ proc["rewards"].log = <<<<"rewards", "{link:'https://y'}">>>>
    /\ pendingCreates = <<>>
    /\ StoredLink(RewardsNotification) = "https://y"

\* C15: a click on button 0 of a notification id with a stored link opens
\* one tab with that link and removes the entry, so the next click on that
\* id, no notification having been stored since, opens nothing; a click on
\* another button or on an id without a stored link opens nothing and leaves
\* notificationLinks unchanged.
C15_ClickConsumesLink ==
    [][lastClick'.n # lastClick.n =>
         LET c == lastClick'
             stored == StoredLink(c.id)
         IN /\ (Truthy(stored) /\ c.button = 0) =>
                  /\ c.opened = <<stored>>
                  /\ c.id \notin DOMAIN notificationLinks'
                  /\ \A id \in DOMAIN notificationLinks \ {c.id} :
                        /\ id \in DOMAIN notificationLinks'
                        /\ notificationLinks'[id] = notificationLinks[id]
            /\ ~(Truthy(stored) /\ c.button = 0) =>
                  /\ c.opened = <<>>
                  /\ notificationLinks' = notificationLinks
            /\ (lastClick.opened # <<>> /\ ~lastClick.storedSince
                   /\ c.id = lastClick.id) => c.opened = <<>>]_vars

\* a click has opened the stored link and consumed the entry
C15_Witness ==
    /\ lastClick.opened = <<"https://y">>
    /\ lastClick.button = 0
    /\ ~lastClick.storedSince
    /\ RewardsNotification \notin DOMAIN notificationLinks


----------------------------------------------------------------------------
(* Who writes the base URL (checked under Spec) *)

\* C18: once baseUrl is resolved, only the assignment of the refresh timer
\* changes its value; no ensureBaseUrl call does.
C18_OnlyRefreshOverwrites ==
    [][(Truthy(baseUrl) /\ baseUrl' # baseUrl) =>
          /\ proc["refresh"].pc = "resolve"
          /\ proc'["refresh"].pc = "idle"]_vars

----------------------------------------------------------------------------
(* Termination (checked under SpecTermination) *)

\* C20: every fetchWithRetry call that has an attempt or a delay pending
\* eventually returns or throws, for every retries in 0..MaxRetries; with
\* retries = 0 it has thrown at once without an attempt; and every
\* ensureBaseUrl call and every refresh eventually completes, baseUrl being
\* set when it does.
C20_EveryCallTerminates ==
    /\ (call.pc \in {"fetch", "sleep"}) ~> (call.pc \in {"returned", "threw"})
    /\ []((call.pc # "none" /\ call.retries = 0) =>
             (call.pc = "threw" /\ callLog = <<>>))
    /\ \A p \in Procs :
          (proc[p].pc \in {"ensure", "resolve"})
             ~> (proc[p].pc \notin {"ensure", "resolve"} /\ Truthy(baseUrl))

\* a call with retries > 1 has used up its attempts and thrown
C20_Witness ==
    /\ call.pc = "threw"
    /\ call.retries = MaxRetries
    /\ Count({"attempt"}) = MaxRetries
    /\ Count({"wait"}) = MaxRetries - 1

============================================================================
